---- MODULE Spec2Model ----
(***************************************************************************)
(* A model of rq/queue.py: the Store (Redis) keys the queue module reads   *)
(* and writes, and one action per public operation.  Job records live in   *)
(* rq/job.py, which is not part of the sources at hand; the few Job        *)
(* methods queue.py calls (create, save, fetch, status, register_          *)
(* dependency) are modelled from the specification and the tests.          *)
(***************************************************************************)
EXTENDS Integers, Sequences, FiniteSets, TLC

\* ------------------------------------------------------------------ bounds
\* Number of job ids (uuids) that Job.create may hand out.
MaxJobs == 3

\* ---------------------------------------------------------------- constants
\* Queue.DEFAULT_TIMEOUT
DEFAULT_TIMEOUT == 180
\* Python's None in an integer field (job.timeout, Queue._default_timeout)
NoTimeout == 0
\* The score of an id that is not in a sorted set.
NoScore == -1
\* "no job": depends_on=None, or nothing returned
NoJob == 0
\* timeout=None of Queue.lpop / Queue.dequeue_any: the non-blocking variant
NonBlocking == -1
\* A positive timeout of the blocking variant, in seconds.
SomeSeconds == 5
\* A timeout a caller gives a job (tests: job.timeout = 200).
CallerTimeout == 200
\* Longest FIFO list the callers of push_job_id build.
MaxLen == 3

JobIds == 1..MaxJobs
\* Names of plain queues used by the callers, and the failed queue's name
\* (FailedQueue is Queue(Status.FAILED)).
PlainQueues == {"q1", "q2"}
FailedName == "failed"
QueueNames == PlainQueues \cup {FailedName}

\* Status values of rq.job.Status, "none" for a job created without one.
QUEUED == "queued"
FINISHED == "finished"
FAILED == "failed"
STARTED == "started"
DEFERRED == "deferred"

VARIABLES
    jobs,         \* rq:job:<id>      : the persisted Job Record of each id
    fifo,         \* rq:queue:<name>  : the FIFO list of job ids of each queue
    deferred,     \* rq:deferred      : the Deferred Set
    dependents,   \* rq:job:<id>:dependents : reverse-dependency set of each job
    queues_keys,  \* rq:queues        : the Queue Registry
    wip,          \* rq:wipqueue:<name> : the WIP sorted set of each queue, the
                  \*                    score of each id in it
    now,          \* time.time(), in whole seconds
    nextId,       \* the next id Job.create hands out
    named,        \* history: the parents given to each enqueue_call that were
                  \*          not FINISHED when it was called
    drained,      \* history: the parents enqueue_dependents has been run for
    last,         \* history: the last operation, its arguments and its outcome
    pc,           \* position of each concurrent process (race specifications)
    loc           \* locals of each concurrent process

storeVars == <<jobs, fifo, deferred, dependents, queues_keys, wip, now>>
procVars == <<pc, loc>>
vars == <<jobs, fifo, deferred, dependents, queues_keys, wip, now, nextId,
          named, drained, last, pc, loc>>

\* ------------------------------------------------------------ Job records
\* A record that was never saved (or was deleted).  data is the pickled
\* payload: "ok", or "corrupt" when Job.fetch cannot unpickle it.
NoRec ==
    [exists |-> FALSE, status |-> "none", origin |-> "none",
     timeout |-> NoTimeout, exc_info |-> "none", enqueued_at |-> FALSE,
     ended_at |-> FALSE, dependency |-> NoJob, data |-> "ok"]

\* The Store as one value, so that handlers compose as functions on it; the
\* clock the handlers read is kept with it.
Store ==
    [jobs |-> jobs, fifo |-> fifo, deferred |-> deferred,
     dependents |-> dependents, queues_keys |-> queues_keys,
     wip |-> wip, now |-> now]

\* A Queue object: its name and the two constructor options.
Handle(name, default_timeout, async) ==
    [name |-> name, default_timeout |-> default_timeout, async |-> async]

\* Job.create(status=, depends_on=, timeout=): an in-memory job, not saved.
Job_create(status, depends_on, timeout) ==
    [NoRec EXCEPT !.status = status, !.dependency = depends_on,
                  !.timeout = timeout]

\* job.save(): write every field of the in-memory job to its record.
Job_save(s, id, o) ==
    [s EXCEPT !.jobs[id] = [o EXCEPT !.exists = TRUE]]

\* Job.exists(id)
Job_exists(s, id) == s.jobs[id].exists

\* job.status / job.get_status(): read from the Store.
Job_status(s, id) == s.jobs[id].status

\* Job.fetch(id): "ok", or the name of the exception it raises.
Job_fetch(s, id) ==
    IF ~s.jobs[id].exists THEN "NoSuchJobError"
    ELSE IF s.jobs[id].data = "corrupt" THEN "UnpickleError"
    ELSE "ok"

\* job.delete(): the record is removed; FIFO lists that hold the id keep it.
Job_delete(s, id) ==
    [s EXCEPT !.jobs[id] = NoRec]

\* job.register_dependency(): add the child to its parent's dependents set.
Job_register_dependency(s, id, o) ==
    [s EXCEPT !.dependents[o.dependency] = @ \cup {id}]

\* ------------------------------------------------------------ list helpers
RECURSIVE Count(_, _)
Count(seq, x) ==
    IF seq = <<>> THEN 0
    ELSE (IF Head(seq) = x THEN 1 ELSE 0) + Count(Tail(seq), x)

\* Number of occurrences of id in the FIFO list of queue q.
InFifo(s, q, id) == Count(s.fifo[q], id)

RECURSIVE SumOver(_, _, _)
SumOver(s, qs, id) ==
    IF qs = {} THEN 0
    ELSE LET q == CHOOSE x \in qs : TRUE
         IN InFifo(s, q, id) + SumOver(s, qs \ {q}, id)

\* Number of occurrences of id in all FIFO lists together.
Occurrences(s, id) == SumOver(s, QueueNames, id)

\* A handler's outcome: the Store it leaves, how it ended ("ok" or the name of
\* the exception raised) and the job it returns (NoJob for none).
Outcome(s, res, job) == [s |-> s, res |-> res, job |-> job]

\* ---------------------------------------------------------- Queue methods
\* A faulty push_job_id: LPUSH in place of RPUSH.
push_job_id_front(s, q, id) ==
    [s EXCEPT !.fifo[q] = <<id>> \o @]

\* Queue.push_job_id: RPUSH on the queue's key.
push_job_id(s, q, id) ==
    [s EXCEPT !.fifo[q] = Append(@, id)]

RECURSIVE Without(_, _)
Without(seq, x) ==
    IF seq = <<>> THEN <<>>
    ELSE IF Head(seq) = x THEN Without(Tail(seq), x)
         ELSE <<Head(seq)>> \o Without(Tail(seq), x)

\* The list without the first occurrence of x.
RECURSIVE WithoutFirst(_, _)
WithoutFirst(seq, x) ==
    IF seq = <<>> THEN <<>>
    ELSE IF Head(seq) = x THEN Tail(seq)
         ELSE <<Head(seq)>> \o WithoutFirst(Tail(seq), x)

\* A faulty remove: LREM key 1 id, the first occurrence only.
remove_first_only(s, q, id) ==
    Outcome([s EXCEPT !.fifo[q] = WithoutFirst(@, id)], "ok",
            IF InFifo(s, q, id) > 0 THEN 1 ELSE 0)

\* Queue.remove: LREM key 0 id, every occurrence; returns the number removed.
remove(s, q, id) ==
    Outcome([s EXCEPT !.fifo[q] = Without(@, id)], "ok", InFifo(s, q, id))

\* Queue.fetch_job(job_id): the job (its id), or None (NoJob) after removing
\* from the list an id that has no record.  UnpickleError is not caught.
fetch_job(s, q, id) ==
    LET f == Job_fetch(s, id)
    IN  IF f = "NoSuchJobError" THEN Outcome(remove(s, q, id).s, "ok", NoJob)
        ELSE IF f = "ok" THEN Outcome(s, "ok", id)
        ELSE Outcome(s, f, NoJob)

\* Queue.get_job_ids(offset, length): LRANGE key start end, for offset >= 0
\* and length >= -1.
get_job_ids(s, q, offset, length) ==
    LET L == s.fifo[q]
        last_index == IF length >= 0 THEN offset + length ELSE Len(L) + 1 + length
        end == IF last_index > Len(L) THEN Len(L) ELSE last_index
    IN  IF offset + 1 > end THEN <<>> ELSE SubSeq(L, offset + 1, end)

\* What get_jobs leaves: the Store, how it ended, the ids of the jobs returned.
Fetched(s, res, got) == [s |-> s, res |-> res, got |-> got]

\* The list comprehension of line 153 with compact(lst): fetch_job on each
\* id in turn, keeping the jobs that are not None.
RECURSIVE fetch_each(_, _, _, _)
fetch_each(s, q, job_ids, got) ==
    IF job_ids = <<>> THEN Fetched(s, "ok", got)
    ELSE LET r == fetch_job(s, q, Head(job_ids))
         IN  IF r.res # "ok" THEN Fetched(r.s, r.res, <<>>)
             ELSE fetch_each(r.s, q, Tail(job_ids),
                             IF r.job = NoJob THEN got ELSE Append(got, r.job))

\* A faulty get_jobs: ids without a record are skipped but left in the list.
get_jobs_no_remove(s, q, offset, length) ==
    LET ids == get_job_ids(s, q, offset, length)
    IN  Fetched(s, IF \E i \in 1..Len(ids) : Job_fetch(s, ids[i]) = "UnpickleError"
                   THEN "UnpickleError" ELSE "ok",
                SelectSeq(ids, LAMBDA id : Job_fetch(s, id) = "ok"))

\* Queue.get_jobs(offset, length)
get_jobs(s, q, offset, length) ==
    fetch_each(s, q, get_job_ids(s, q, offset, length), <<>>)

\* job.cancel() on each job of job_list: the record is deleted.
RECURSIVE cancel_each(_, _)
cancel_each(s, job_list) ==
    IF job_list = <<>> THEN s
    ELSE cancel_each(Job_delete(s, Head(job_list)), Tail(job_list))

\* A faulty empty: the queue's key is also taken out of rq:queues.
empty_unregisters(s, q) ==
    LET r == get_jobs(s, q, 0, -1)
    IN  IF r.res # "ok" THEN r
        ELSE Fetched(cancel_each([r.s EXCEPT !.fifo[q] = <<>>,
                                             !.queues_keys = @ \ {q}], r.got),
                     "ok", r.got)

\* A faulty empty: the jobs are not cancelled.
empty_no_cancel(s, q) ==
    LET r == get_jobs(s, q, 0, -1)
    IN  IF r.res # "ok" THEN r
        ELSE Fetched([r.s EXCEPT !.fifo[q] = <<>>], "ok", r.got)

\* Queue.empty(): get_jobs, DEL key, cancel each job.
empty(s, q) ==
    LET r == get_jobs(s, q, 0, -1)
    IN  IF r.res # "ok" THEN r
        ELSE Fetched(cancel_each([r.s EXCEPT !.fifo[q] = <<>>], r.got), "ok", r.got)

\* A faulty enqueue_job: origin and enqueued_at are never set.
enqueue_job_no_meta(s, h, id, o, set_meta_data) ==
    LET s1 == [s EXCEPT !.queues_keys = @ \cup {h.name}]
        o2 == IF o.timeout = NoTimeout
              THEN [o EXCEPT !.timeout = DEFAULT_TIMEOUT]
              ELSE o
        s2 == Job_save(s1, id, o2)
    IN  IF h.async THEN [s2 EXCEPT !.fifo[h.name] = Append(@, id)] ELSE s2

\* Queue.enqueue_job(job, set_meta_data) on the queue object h; o is the
\* in-memory job.  With async=False the job is performed inline, not listed.
enqueue_job(s, h, id, o, set_meta_data) ==
    LET s1 == [s EXCEPT !.queues_keys = @ \cup {h.name}]
        o1 == IF set_meta_data
              THEN [o EXCEPT !.origin = h.name, !.enqueued_at = TRUE]
              ELSE o
        o2 == IF o1.timeout = NoTimeout
              THEN [o1 EXCEPT !.timeout = DEFAULT_TIMEOUT]
              ELSE o1
        s2 == Job_save(s1, id, o2)
    IN  IF h.async THEN push_job_id(s2, h.name, id) ELSE s2

\* A faulty defer_job: the SADD on rq:deferred is missing.
defer_job_no_sadd(s, h, id, o) ==
    LET o1 == [o EXCEPT !.origin = h.name, !.enqueued_at = TRUE]
        o2 == IF o1.timeout = NoTimeout
              THEN [o1 EXCEPT !.timeout = DEFAULT_TIMEOUT]
              ELSE o1
    IN  Job_save(s, id, o2)

\* Queue.defer_job(job): park the job in the Deferred Set.
defer_job(s, h, id, o) ==
    LET s1 == [s EXCEPT !.deferred = @ \cup {id}]
        o1 == [o EXCEPT !.origin = h.name, !.enqueued_at = TRUE]
        o2 == IF o1.timeout = NoTimeout
              THEN [o1 EXCEPT !.timeout = DEFAULT_TIMEOUT]
              ELSE o1
    IN  Job_save(s1, id, o2)

\* The depends_on / blocked_by argument: None, one Job, or a list of Jobs.
NoDep == [kind |-> "none", ids |-> <<>>]
OneDep(p) == [kind |-> "job", ids |-> <<p>>]
ListDep(ps) == [kind |-> "list", ids |-> ps]
\* Python truth value of the argument (None, False and [] are false).
Truthy(d) == d.kind = "job" \/ (d.kind = "list" /\ d.ids # <<>>)
\* The parents an argument names.
Parents(d) == {d.ids[i] : i \in 1..Len(d.ids)}

\* A faulty ParentUnfinished: == in place of !=.
ParentUnfinished_flipped(s, parent) == Job_status(s, parent) = FINISHED

\* line 233: depends_on.status != Status.FINISHED
ParentUnfinished(s, parent) == Job_status(s, parent) # FINISHED

\* Queue.enqueue_call on the queue object h; id is the uuid of the new job.
\* depends_on.key and depends_on.status are attributes of a Job: a list has
\* neither, so a list argument ends the call with AttributeError before
\* anything is saved.
enqueue_call(s, h, id, timeout, depends_on, is_deferred, blocked_by) ==
    LET timeout1 == IF timeout # NoTimeout THEN timeout ELSE h.default_timeout
        init_status == IF is_deferred \/ Truthy(blocked_by)
                       THEN DEFERRED ELSE QUEUED
        dep == IF Truthy(blocked_by) THEN blocked_by ELSE depends_on
        parent == IF dep.kind = "job" THEN dep.ids[1] ELSE NoJob
        job == Job_create(init_status, parent, timeout1)
    IN  IF dep.kind = "list"
        THEN Outcome(s, "AttributeError", NoJob)
        ELSE IF dep.kind = "job" /\ ParentUnfinished(s, parent)
        THEN Outcome(Job_save(Job_register_dependency(s, id, job), id, job),
                     "ok", id)
        ELSE IF init_status = DEFERRED
        THEN Outcome(defer_job(s, h, id, job), "ok", id)
        ELSE Outcome(enqueue_job(s, h, id, job, TRUE), "ok", id)

\* A faulty release_job: queue_or_name is ignored, the job always goes to
\* the queue of its origin.
release_job_ignores_target(s, id, target) ==
    IF ~Job_exists(s, id)
    THEN Outcome(s, "NoSuchJobError", NoJob)
    ELSE IF Job_status(s, id) # DEFERRED
    THEN Outcome(s, "InvalidJobOperationError", NoJob)
    ELSE IF id \notin s.deferred
    THEN Outcome(s, "NoSuchJobError", NoJob)
    ELSE LET job == s.jobs[id]
             s1 == [s EXCEPT !.deferred = @ \ {id}]
             o1 == [job EXCEPT !.status = QUEUED]
             s2 == Job_save(s1, id, o1)
         IN  Outcome(enqueue_job(s2, Handle(job.origin, NoTimeout, TRUE), id, o1, TRUE),
                     "ok", id)

\* A faulty release_job: the is_deferred check of line 30 is missing.
release_job_no_status_check(s, id, target) ==
    IF ~Job_exists(s, id)
    THEN Outcome(s, "NoSuchJobError", NoJob)
    ELSE IF id \notin s.deferred
    THEN Outcome(s, "NoSuchJobError", NoJob)
    ELSE LET job == s.jobs[id]
             qname == IF target = "none" THEN job.origin ELSE target
             s1 == [s EXCEPT !.deferred = @ \ {id}]
             o1 == [job EXCEPT !.status = QUEUED]
             s2 == Job_save(s1, id, o1)
         IN  Outcome(enqueue_job(s2, Handle(qname, NoTimeout, TRUE), id, o1, TRUE),
                     "ok", id)

\* A faulty release_job: the result of the SREM of lines 41-43 is ignored.
release_job_no_srem_check(s, id, target) ==
    IF ~Job_exists(s, id)
    THEN Outcome(s, "NoSuchJobError", NoJob)
    ELSE IF Job_status(s, id) # DEFERRED
    THEN Outcome(s, "InvalidJobOperationError", NoJob)
    ELSE LET job == s.jobs[id]
             qname == IF target = "none" THEN job.origin ELSE target
             s1 == [s EXCEPT !.deferred = @ \ {id}]
             o1 == [job EXCEPT !.status = QUEUED]
             s2 == Job_save(s1, id, o1)
         IN  Outcome(enqueue_job(s2, Handle(qname, NoTimeout, TRUE), id, o1, TRUE),
                     "ok", id)

\* release_job(job_id, queue_or_name): target is a queue name, or "none".
\* The cascade after `if True: return` is unreachable.
release_job(s, id, target) ==
    IF ~Job_exists(s, id)
    THEN Outcome(s, "NoSuchJobError", NoJob)
    ELSE IF Job_status(s, id) # DEFERRED
    THEN Outcome(s, "InvalidJobOperationError", NoJob)
    ELSE IF id \notin s.deferred
    THEN Outcome(s, "NoSuchJobError", NoJob)
    ELSE LET job == s.jobs[id]
             qname == IF target = "none" THEN job.origin ELSE target
             s1 == [s EXCEPT !.deferred = @ \ {id}]
             o1 == [job EXCEPT !.status = QUEUED]
             s2 == Job_save(s1, id, o1)
         IN  Outcome(enqueue_job(s2, Handle(qname, NoTimeout, TRUE), id, o1, TRUE),
                     "ok", id)

\* Queue.enqueue_dependents(job) on the queue object h.  SPOP takes the
\* members in an arbitrary order: order is the one taken.  Job.fetch of a
\* member without a record raises NoSuchJobError and ends the drain.
RECURSIVE drain(_, _, _, _)
drain(s, h, p, order) ==
    IF order = <<>> THEN Outcome(s, "ok", NoJob)
    ELSE LET c == Head(order)
             s1 == [s EXCEPT !.dependents[p] = @ \ {c}]
         IN  IF ~Job_exists(s1, c)
             THEN Outcome(s1, "NoSuchJobError", NoJob)
             ELSE drain(enqueue_job(s1, h, c, s1.jobs[c], TRUE), h, p,
                        Tail(order))

\* A faulty enqueue_dependents: the members are read with SMEMBERS and
\* never taken out of the set.
enqueue_dependents_peek(s, h, p, order) ==
    LET r == drain(s, h, p, order)
    IN  [r EXCEPT !.s.dependents[p] = s.dependents[p]]

enqueue_dependents(s, h, p, order) == drain(s, h, p, order)

\* Queue.pop_job_id: LPOP on the queue's key.
pop_job_id(s, q) ==
    IF s.fifo[q] = <<>> THEN Outcome(s, "ok", NoJob)
    ELSE Outcome([s EXCEPT !.fifo[q] = Tail(@)], "ok", Head(s.fifo[q]))

\* A faulty dequeue: the id is taken from the tail of the list.
RECURSIVE dequeue_from_tail(_, _)
dequeue_from_tail(s, q) ==
    IF s.fifo[q] = <<>> THEN Outcome(s, "ok", NoJob)
    ELSE LET n == Len(s.fifo[q])
             id == s.fifo[q][n]
             s1 == [s EXCEPT !.fifo[q] = SubSeq(@, 1, n - 1)]
         IN  IF Job_fetch(s1, id) = "NoSuchJobError" THEN dequeue_from_tail(s1, q)
             ELSE Outcome(s1, Job_fetch(s1, id), id)

\* Queue.dequeue: pop the head; an id without a record is dropped and the
\* pop retried; a record that cannot be unpickled ends the call with
\* UnpickleError (the id stays popped).
RECURSIVE dequeue(_, _)
dequeue(s, q) ==
    LET r == pop_job_id(s, q)
    IN  IF r.job = NoJob THEN Outcome(s, "ok", NoJob)
        ELSE IF Job_fetch(r.s, r.job) = "NoSuchJobError" THEN dequeue(r.s, q)
        ELSE Outcome(r.s, Job_fetch(r.s, r.job), r.job)

\* Queue.compact: RENAME the list to a scratch key, then LPOP each id from it
\* and RPUSH back those that have a record.  RENAME of a missing key (an
\* empty queue) is refused by the Store.
RECURSIVE compact_loop(_, _, _)
compact_loop(s, q, scratch) ==
    IF scratch = <<>> THEN Outcome(s, "ok", NoJob)
    ELSE IF Job_exists(s, Head(scratch))
         THEN compact_loop(push_job_id(s, q, Head(scratch)), q, Tail(scratch))
         ELSE compact_loop(s, q, Tail(scratch))

\* A faulty compact: the surviving ids are pushed back at the head (LPUSH).
RECURSIVE compact_lpush_loop(_, _, _)
compact_lpush_loop(s, q, scratch) ==
    IF scratch = <<>> THEN Outcome(s, "ok", NoJob)
    ELSE IF Job_exists(s, Head(scratch))
         THEN compact_lpush_loop([s EXCEPT !.fifo[q] = <<Head(scratch)>> \o @],
                                 q, Tail(scratch))
         ELSE compact_lpush_loop(s, q, Tail(scratch))

compact_lpush(s, q) ==
    IF s.fifo[q] = <<>> THEN Outcome(s, "ResponseError", NoJob)
    ELSE compact_lpush_loop([s EXCEPT !.fifo[q] = <<>>], q, s.fifo[q])

compact(s, q) ==
    IF s.fifo[q] = <<>> THEN Outcome(s, "ResponseError", NoJob)
    ELSE compact_loop([s EXCEPT !.fifo[q] = <<>>], q, s.fifo[q])

\* What lpop and dequeue_any return: the Store left, how the call ended, the
\* id popped and the queue it came from.
Popped(s, res, job, q) == [s |-> s, res |-> res, job |-> job, q |-> q]

\* The non-blocking variant of lpop: one LPOP per key, in the order given.
RECURSIVE lpop_each(_, _)
lpop_each(s, queue_keys) ==
    IF queue_keys = <<>> THEN Popped(s, "ok", NoJob, "none")
    ELSE LET r == pop_job_id(s, Head(queue_keys))
         IN  IF r.job # NoJob THEN Popped(r.s, "ok", r.job, Head(queue_keys))
             ELSE lpop_each(s, Tail(queue_keys))

\* BLPOP key1 key2 ... timeout, no producer running meanwhile: the head of
\* the first non-empty list in the order given, or nil when the time is up.
blpop(s, queue_keys) == lpop_each(s, queue_keys)

\* The keys in the opposite order.
RECURSIVE Reversed(_)
Reversed(seq) ==
    IF seq = <<>> THEN <<>> ELSE Append(Reversed(Tail(seq)), Head(seq))

\* A faulty lpop: the keys are served last to first.
lpop_last_first(s, queue_keys, timeout) ==
    IF timeout # NonBlocking
    THEN IF timeout = 0 THEN Popped(s, "ValueError", NoJob, "none")
         ELSE LET r == blpop(s, Reversed(queue_keys))
              IN  IF r.job = NoJob
                  THEN Popped(s, "DequeueTimeout", NoJob, "none")
                  ELSE r
    ELSE lpop_each(s, Reversed(queue_keys))

\* A faulty lpop: timeout == 0 is looked at after the BLPOP.
lpop_late_check(s, queue_keys, timeout) ==
    IF timeout # NonBlocking
    THEN LET r == blpop(s, queue_keys)
         IN  IF timeout = 0 THEN Popped(r.s, "ValueError", NoJob, "none")
             ELSE IF r.job = NoJob
             THEN Popped(s, "DequeueTimeout", NoJob, "none")
             ELSE r
    ELSE lpop_each(s, queue_keys)

\* Queue.lpop(queue_keys, timeout)
lpop(s, queue_keys, timeout) ==
    IF timeout # NonBlocking
    THEN IF timeout = 0 THEN Popped(s, "ValueError", NoJob, "none")
         ELSE LET r == blpop(s, queue_keys)
              IN  IF r.job = NoJob
                  THEN Popped(s, "DequeueTimeout", NoJob, "none")
                  ELSE r
    ELSE lpop_each(s, queue_keys)

\* A faulty dequeue_any: an id without a record ends the call with None,
\* nothing is retried.
dequeue_any_no_retry(s, queues, timeout) ==
    LET r == lpop(s, queues, timeout)
    IN  IF r.res # "ok" \/ r.job = NoJob THEN r
        ELSE IF Job_fetch(r.s, r.job) = "NoSuchJobError"
        THEN Popped(r.s, "ok", NoJob, "none")
        ELSE Popped(r.s, Job_fetch(r.s, r.job), r.job, r.q)

\* Queue.dequeue_any(queues, timeout): queues is the list of queue names in
\* the caller's order.  An id without a record is dropped and the whole call
\* made again; a record that cannot be unpickled ends it with UnpickleError.
RECURSIVE dequeue_any(_, _, _)
dequeue_any(s, queues, timeout) ==
    LET r == lpop(s, queues, timeout)
    IN  IF r.res # "ok" \/ r.job = NoJob THEN r
        ELSE IF Job_fetch(r.s, r.job) = "NoSuchJobError"
        THEN dequeue_any(r.s, queues, timeout)
        ELSE Popped(r.s, Job_fetch(r.s, r.job), r.job, r.q)

\* ------------------------------------------------------------ FailedQueue
FailedHandle == Handle(FailedName, NoTimeout, TRUE)

\* A faulty quarantine: enqueue_job is left to set the meta data.
quarantine_sets_meta(s, id, o, exc_info) ==
    LET o1 == [o EXCEPT !.ended_at = TRUE, !.exc_info = exc_info]
    IN  enqueue_job(s, FailedHandle, id, o1, TRUE)

\* FailedQueue.quarantine(job, exc_info)
quarantine(s, id, o, exc_info) ==
    LET o1 == [o EXCEPT !.ended_at = TRUE, !.exc_info = exc_info]
    IN  enqueue_job(s, FailedHandle, id, o1, FALSE)

\* A faulty requeue: the result of remove is not looked at.
requeue_no_presence_check(s, id) ==
    IF ~Job_exists(s, id)
    THEN Outcome(remove(s, FailedName, id).s, "ok", NoJob)
    ELSE LET s1 == remove(s, FailedName, id).s
             o1 == [s1.jobs[id] EXCEPT !.status = QUEUED, !.exc_info = "none"]
         IN  Outcome(enqueue_job(s1, Handle(o1.origin, NoTimeout, TRUE), id, o1, TRUE),
                     "ok", id)

\* FailedQueue.requeue(job_id)
requeue(s, id) ==
    IF ~Job_exists(s, id)
    THEN Outcome(remove(s, FailedName, id).s, "ok", NoJob)
    ELSE IF remove(s, FailedName, id).job = 0
    THEN Outcome(s, "InvalidJobOperationError", NoJob)
    ELSE LET s1 == remove(s, FailedName, id).s
             o1 == [s1.jobs[id] EXCEPT !.status = QUEUED, !.exc_info = "none"]
         IN  Outcome(enqueue_job(s1, Handle(o1.origin, NoTimeout, TRUE), id, o1, TRUE),
                     "ok", id)

\* ------------------------------------------------------------------ state
\* The record kept of the last operation: its name, how it ended, the job it
\* was about, the queue it was called on (or the target given), the parents
\* named, the deferred flag, and (release_job, requeue) the origin the job had
\* before the call.
\* ret is the number remove returned (for compact, dequeue and dequeue_any,
\* the number of ids the call took off the lists; for remove_expired_jobs,
\* the number of members it took out); queues and timeout are the
\* arguments of dequeue_any (for quarantine, timeout is the timeout the job
\* had before the call and old its origin); after is the operation that came
\* right before a requeue, where that is recorded.  ids is the set of ids
\* the call found (enqueue_dependents: the members of the parent's set),
\* before the list of the queue as the call found it, got the ids of the jobs
\* the call returned (get_jobs) and default_timeout the default_timeout of
\* the queue object (enqueue_job, defer_job called by hand); offset and
\* length are the arguments of get_jobs.  They keep these
\* defaults for every other operation.
Last(op, res, job, q, parents, flag, old) ==
    [op |-> op, res |-> res, job |-> job, q |-> q, parents |-> parents,
     deferred |-> flag, old |-> old,
     ret |-> 0, queues |-> <<>>, timeout |-> NonBlocking, after |-> "none",
     ids |-> {}, before |-> <<>>, got |-> <<>>, default_timeout |-> NoTimeout,
     offset |-> 0, length |-> -1]

Idle == [p \in {"producer", "worker"} |-> "idle"]
\* Locals of a process: the job it works on, the queue object it was called
\* on, the other job involved (parent or child) and its in-memory Job.
Loc(job, q, other, obj) == [job |-> job, q |-> q, other |-> other, obj |-> obj]
NoLoc == [p \in {"producer", "worker"} |-> Loc(NoJob, "none", NoJob, NoRec)]

EmptyStore ==
    [jobs |-> [i \in JobIds |-> NoRec],
     fifo |-> [q \in QueueNames |-> <<>>],
     deferred |-> {},
     dependents |-> [i \in JobIds |-> {}],
     queues_keys |-> {},
     wip |-> [q \in PlainQueues |-> [i \in JobIds |-> NoScore]],
     now |-> 0]

\* The Store becomes s.
Commit(s) ==
    /\ jobs' = s.jobs
    /\ fifo' = s.fifo
    /\ deferred' = s.deferred
    /\ dependents' = s.dependents
    /\ queues_keys' = s.queues_keys
    /\ wip' = s.wip
    /\ now' = s.now

Init ==
    /\ jobs = EmptyStore.jobs
    /\ fifo = EmptyStore.fifo
    /\ deferred = EmptyStore.deferred
    /\ dependents = EmptyStore.dependents
    /\ queues_keys = EmptyStore.queues_keys
    /\ wip = EmptyStore.wip
    /\ now = EmptyStore.now
    /\ nextId = 1
    /\ named = [i \in JobIds |-> {}]
    /\ drained = {}
    /\ last = Last("init", "ok", NoJob, "none", {}, FALSE, "none")
    /\ pc = Idle
    /\ loc = NoLoc

\* Jobs that Job.create has made so far.
Created == 1..(nextId - 1)

\* Every order in which the members of set S can be taken.
Orders(S) ==
    {f \in [1..Cardinality(S) -> S] : \A i, j \in 1..Cardinality(S) : f[i] = f[j] => i = j}

\* ----------------------------------------------------------------- inputs
\* Timeouts a caller passes to enqueue.
TimeoutArgs == {NoTimeout}
\* default_timeout of the Queue objects the callers construct.
DefaultTimeoutArgs == {NoTimeout}
\* The depends_on / blocked_by arguments a caller can pass: None, a job made
\* earlier, or a list of such jobs.
DepArgs ==
    {NoDep} \cup {OneDep(p) : p \in Created}
            \cup {ListDep(<<p1, p2>>) : <<p1, p2>> \in {x \in Created \X Created : x[1] < x[2]}}

\* ---------------------------------------------------------------- actions
\* q.enqueue(f, timeout=, depends_on=, deferred=, blocked_by=).  Job.create
\* draws the uuid nextId whether or not the call goes on to save the job.
\* track: keep the history of the unfinished parents named.
Enqueue(q, dt, async, timeout, depends_on, is_deferred, blocked_by, track) ==
    /\ nextId <= MaxJobs
    /\ LET dep == IF Truthy(blocked_by) THEN blocked_by ELSE depends_on
           r == enqueue_call(Store, Handle(q, dt, async), nextId, timeout,
                             depends_on, is_deferred, blocked_by)
       IN  /\ Commit(r.s)
           /\ named' = IF track
                       THEN [named EXCEPT ![nextId] =
                               {p \in Parents(dep) : ParentUnfinished(Store, p)}]
                       ELSE named
           /\ last' = [Last(IF Truthy(blocked_by) THEN "enqueue_blocked_by"
                            ELSE IF async THEN "enqueue" ELSE "enqueue_sync",
                            r.res, nextId, q, Parents(dep), is_deferred, "none")
                          EXCEPT !.timeout = timeout, !.default_timeout = dt]
    /\ nextId' = nextId + 1
    /\ UNCHANGED <<drained, pc, loc>>

\* release_job(job_id, queue_or_name=target)
ReleaseJob(id, target) ==
    /\ LET r == release_job(Store, id, target)
       IN  /\ Commit(r.s)
           /\ last' = Last("release_job", r.res, id,
                           IF r.res = "ok" THEN target ELSE "none", {}, FALSE,
                           IF r.res = "ok" THEN jobs[id].origin ELSE "none")
    /\ UNCHANGED <<nextId, named, drained, pc, loc>>

\* The worker, after job p has finished: Queue(q).enqueue_dependents(p).
\* track: keep the history of the parents drained.
EnqueueDependents(q, p, order, track) ==
    /\ Job_status(Store, p) = FINISHED
    /\ LET r == enqueue_dependents(Store, Handle(q, NoTimeout, TRUE), p, order)
       IN  /\ Commit(r.s)
           /\ last' = [Last("enqueue_dependents", r.res, p, q, {}, FALSE, "none")
                          EXCEPT !.ids = dependents[p]]
    /\ drained' = IF track THEN drained \cup {p} ELSE drained
    /\ UNCHANGED <<nextId, named, pc, loc>>

\* A worker takes the next job of queue q (Queue.dequeue) and marks it STARTED.
WorkerTake(q) ==
    /\ fifo[q] # <<>>
    /\ LET r == dequeue(Store, q)
           s1 == IF r.job = NoJob THEN r.s
                 ELSE Job_save(r.s, r.job, [r.s.jobs[r.job] EXCEPT !.status = STARTED])
       IN  /\ Commit(s1)
           /\ last' = Last("dequeue", r.res, r.job, q, {}, FALSE, "none")
    /\ UNCHANGED <<nextId, named, drained, pc, loc>>

\* The worker's job ends well: its status becomes FINISHED.
WorkerFinish(j) ==
    /\ Job_status(Store, j) = STARTED
    /\ Commit(Job_save(Store, j, [jobs[j] EXCEPT !.status = FINISHED]))
    /\ last' = Last("finish", "ok", j, "none", {}, FALSE, "none")
    /\ UNCHANGED <<nextId, named, drained, pc, loc>>

\* The worker's job raises: its status becomes FAILED and the worker calls
\* get_failed_queue().quarantine(job, exc_info).
WorkerFail(j) ==
    /\ Job_status(Store, j) = STARTED
    /\ LET o == [jobs[j] EXCEPT !.status = FAILED]
       IN  Commit(quarantine(Job_save(Store, j, o), j, o, "error"))
    /\ last' = [Last("quarantine", "ok", j, FailedName, {}, FALSE, jobs[j].origin)
                   EXCEPT !.timeout = jobs[j].timeout]
    /\ UNCHANGED <<nextId, named, drained, pc, loc>>

\* get_failed_queue().requeue(job_id)
\* track: keep the history of the operation that came before.
Requeue(id, track) ==
    /\ LET r == requeue(Store, id)
       IN  /\ Commit(r.s)
           /\ last' = [Last("requeue", r.res, id, FailedName, {}, FALSE,
                            IF r.res = "ok" THEN jobs[id].origin ELSE "none")
                          EXCEPT !.after = IF track THEN last.op ELSE "none"]
    /\ UNCHANGED <<nextId, named, drained, pc, loc>>

Next ==
    \/ \E q \in PlainQueues, dt \in DefaultTimeoutArgs, async \in BOOLEAN,
          timeout \in TimeoutArgs, fl \in BOOLEAN :
          Enqueue(q, dt, async, timeout, NoDep, fl, NoDep, FALSE)
    \/ \E q \in PlainQueues, dt \in DefaultTimeoutArgs,
          timeout \in TimeoutArgs, d \in DepArgs \ {NoDep}, fl \in BOOLEAN :
          \/ Enqueue(q, dt, TRUE, timeout, d, fl, NoDep, FALSE)
          \/ Enqueue(q, dt, TRUE, timeout, NoDep, fl, d, FALSE)
    \/ \E id \in Created, target \in PlainQueues \cup {"none"} : ReleaseJob(id, target)
    \/ \E q \in PlainQueues, p \in Created :
          \E order \in Orders(dependents[p]) : EnqueueDependents(q, p, order, FALSE)
    \/ \E q \in PlainQueues : WorkerTake(q)
    \/ \E j \in Created : WorkerFinish(j)
    \/ \E j \in Created : WorkerFail(j)
    \/ \E id \in Created : Requeue(id, FALSE)

Spec == Init /\ [][Next]_vars

\* ------------------------------------------------- enqueue_call || worker
\* The race of a producer in enqueue_call(depends_on=P) with the worker that
\* finishes P and runs enqueue_dependents(P): one action per Store round
\* trip.  pipe.watch(P.key) is never followed by a MULTI/EXEC on pipe
\* (register_dependency and save run outside it), so no WatchError is raised
\* and nothing is retried.

\* Parent 1 is STARTED in the hands of a worker that took it from q1; in the
\* second initial state job 2 is already parked on it.
RaceParent ==
    [NoRec EXCEPT !.exists = TRUE, !.status = STARTED, !.origin = "q1",
                  !.timeout = DEFAULT_TIMEOUT, !.enqueued_at = TRUE]
RaceParked ==
    [NoRec EXCEPT !.exists = TRUE, !.status = QUEUED, !.dependency = 1]

RaceInit ==
    /\ \/ /\ jobs = [EmptyStore.jobs EXCEPT ![1] = RaceParent]
          /\ dependents = EmptyStore.dependents
          /\ nextId = 2
       \/ /\ jobs = [EmptyStore.jobs EXCEPT ![1] = RaceParent, ![2] = RaceParked]
          /\ dependents = [EmptyStore.dependents EXCEPT ![1] = {2}]
          /\ nextId = 3
    /\ fifo = EmptyStore.fifo
    /\ deferred = {}
    /\ queues_keys = {"q1"}
    /\ wip = EmptyStore.wip
    /\ now = EmptyStore.now
    /\ named = [i \in JobIds |-> {}]
    /\ drained = {}
    /\ last = Last("init", "ok", NoJob, "none", {}, FALSE, "none")
    /\ pc = Idle
    /\ loc = [NoLoc EXCEPT !["worker"] = Loc(1, "q1", NoJob, NoRec)]

Goto(p, label) == pc' = [pc EXCEPT ![p] = label]

\* lines 212-222: the producer calls Queue(q).enqueue_call(depends_on=1) or
\* (blocked) blocked_by=1; Job.create makes the in-memory child.
P_Create(q, is_deferred, blocked) ==
    /\ pc["producer"] = "idle"
    /\ nextId <= MaxJobs
    /\ loc' = [loc EXCEPT !["producer"] =
                 Loc(nextId, q, 1,
                     Job_create(IF is_deferred \/ blocked THEN DEFERRED ELSE QUEUED,
                                1, NoTimeout))]
    /\ nextId' = nextId + 1
    /\ Goto("producer", "check")
    /\ UNCHANGED <<storeVars, named, drained, last>>

\* lines 232-233: watch the parent's key and read its status.
P_Check ==
    /\ pc["producer"] = "check"
    /\ IF ParentUnfinished(Store, loc["producer"].other)
       THEN Goto("producer", "register")
       ELSE Goto("producer", "enqueue")
    /\ UNCHANGED <<storeVars, nextId, named, drained, last, loc>>

\* line 234: job.register_dependency()
P_Register ==
    /\ pc["producer"] = "register"
    /\ Commit(Job_register_dependency(Store, loc["producer"].job, loc["producer"].obj))
    /\ Goto("producer", "save")
    /\ UNCHANGED <<nextId, named, drained, last, loc>>

\* lines 235-236: job.save(); return job
P_Save ==
    /\ pc["producer"] = "save"
    /\ Commit(Job_save(Store, loc["producer"].job, loc["producer"].obj))
    /\ Goto("producer", "done")
    /\ UNCHANGED <<nextId, named, drained, last, loc>>

\* lines 241-244: the parent was FINISHED: defer_job or enqueue_job.
P_Enqueue ==
    /\ pc["producer"] = "enqueue"
    /\ LET l == loc["producer"]
           h == Handle(l.q, NoTimeout, TRUE)
       IN  Commit(IF l.obj.status = DEFERRED
                  THEN defer_job(Store, h, l.job, l.obj)
                  ELSE enqueue_job(Store, h, l.job, l.obj, TRUE))
    /\ Goto("producer", "done")
    /\ UNCHANGED <<nextId, named, drained, last, loc>>

\* The worker's job 1 ends well: the worker sets its status to FINISHED.
W_Finish ==
    /\ pc["worker"] = "idle"
    /\ Commit(Job_save(Store, 1, [jobs[1] EXCEPT !.status = FINISHED]))
    /\ Goto("worker", "spop")
    /\ UNCHANGED <<nextId, named, drained, last, loc>>

\* lines 336-338: SPOP the dependents set; nothing left ends the drain.
W_Spop ==
    /\ pc["worker"] = "spop"
    /\ IF dependents[1] = {}
       THEN /\ Goto("worker", "done")
            /\ UNCHANGED <<storeVars, loc>>
       ELSE \E c \in dependents[1] :
               /\ Commit([Store EXCEPT !.dependents[1] = @ \ {c}])
               /\ loc' = [loc EXCEPT !["worker"].other = c]
               /\ Goto("worker", "fetch")
    /\ UNCHANGED <<nextId, named, drained, last>>

\* line 339: Job.fetch(job_id); NoSuchJobError when the record is not there.
W_Fetch ==
    /\ pc["worker"] = "fetch"
    /\ LET c == loc["worker"].other
       IN  IF Job_exists(Store, c)
           THEN /\ loc' = [loc EXCEPT !["worker"].obj = jobs[c]]
                /\ Goto("worker", "sadd")
           ELSE /\ Goto("worker", "raised")
                /\ UNCHANGED loc
    /\ UNCHANGED <<storeVars, nextId, named, drained, last>>

\* line 315: enqueue_job registers the queue.
W_Sadd ==
    /\ pc["worker"] = "sadd"
    /\ Commit([Store EXCEPT !.queues_keys = @ \cup {loc["worker"].q}])
    /\ Goto("worker", "save")
    /\ UNCHANGED <<nextId, named, drained, last, loc>>

\* lines 317-323: set origin, enqueued_at and the timeout; job.save()
W_Save ==
    /\ pc["worker"] = "save"
    /\ LET l == loc["worker"]
           o == [l.obj EXCEPT !.origin = l.q, !.enqueued_at = TRUE,
                              !.timeout = IF @ = NoTimeout THEN DEFAULT_TIMEOUT ELSE @]
       IN  /\ Commit(Job_save(Store, l.other, o))
           /\ loc' = [loc EXCEPT !["worker"].obj = o]
    /\ Goto("worker", "rpush")
    /\ UNCHANGED <<nextId, named, drained, last>>

\* line 326: push_job_id; back to the SPOP of line 336.
W_Rpush ==
    /\ pc["worker"] = "rpush"
    /\ Commit(push_job_id(Store, loc["worker"].q, loc["worker"].other))
    /\ loc' = [loc EXCEPT !["worker"].other = NoJob, !["worker"].obj = NoRec]
    /\ Goto("worker", "spop")
    /\ UNCHANGED <<nextId, named, drained, last>>

RaceNext ==
    \/ \E q \in PlainQueues, fl \in BOOLEAN, blocked \in BOOLEAN : P_Create(q, fl, blocked)
    \/ P_Check
    \/ P_Register
    \/ P_Save
    \/ P_Enqueue
    \/ W_Finish
    \/ W_Spop
    \/ W_Fetch
    \/ W_Sadd
    \/ W_Save
    \/ W_Rpush

SpecRace == RaceInit /\ [][RaceNext]_vars

\* C1: once enqueue_call(depends_on=P) and the worker's enqueue_dependents(P)
\* have both returned, no child is left in P's reverse-dependency set while
\* absent from every FIFO list.
C1_NeverStranded ==
    (pc["producer"] = "done" /\ pc["worker"] = "done") =>
        \A c \in JobIds : ~(c \in dependents[1] /\ Occurrences(Store, c) = 0)

\* ---------------------------------------------------------------- claims
\* The parents of a job, as its record keeps them.
ParentsOf(c) == IF jobs[c].dependency = NoJob THEN {} ELSE {jobs[c].dependency}

DepsNext ==
    \/ \E q \in PlainQueues : Enqueue(q, NoTimeout, TRUE, NoTimeout, NoDep, FALSE, NoDep, TRUE)
    \/ \E q \in PlainQueues, d \in DepArgs \ {NoDep} :
          \/ Enqueue(q, NoTimeout, TRUE, NoTimeout, d, FALSE, NoDep, TRUE)
          \/ Enqueue(q, NoTimeout, TRUE, NoTimeout, NoDep, FALSE, d, TRUE)
    \/ \E q \in PlainQueues, p \in Created :
          \E order \in Orders(dependents[p]) : EnqueueDependents(q, p, order, TRUE)
    \/ \E q \in PlainQueues : WorkerTake(q)
    \/ \E j \in Created : WorkerFinish(j)

SpecDeps == Init /\ [][DepsNext]_vars

\* C3: a child enqueued with several unfinished parents, once every parent is
\* FINISHED and enqueue_dependents has run for each, is exactly once in the
\* FIFO list of the queue named by its origin and in no other list.
C3_PromotedExactlyOnce ==
    \A c \in JobIds :
        ( /\ Cardinality(named[c]) >= 2
          /\ \A p \in named[c] : Job_status(Store, p) = FINISHED /\ p \in drained )
        => /\ Job_exists(Store, c)
           /\ Occurrences(Store, c) = 1
           /\ jobs[c].origin \in QueueNames
           /\ InFifo(Store, jobs[c].origin, c) = 1

\* C4: every job whose status is DEFERRED is in the Deferred Set and in no
\* FIFO list.
C4_DeferredStatusInDeferredSet ==
    \A j \in JobIds :
        (Job_exists(Store, j) /\ Job_status(Store, j) = DEFERRED)
            => (j \in deferred /\ Occurrences(Store, j) = 0)

C6_PlainEnqueue ==
    (last.op = "enqueue" /\ last.parents = {} /\ ~last.deferred) =>
        /\ last.res = "ok"
        /\ InFifo(Store, last.q, last.job) = 1
        /\ Occurrences(Store, last.job) = 1
        /\ fifo[last.q][Len(fifo[last.q])] = last.job
        /\ Job_status(Store, last.job) = QUEUED
        /\ jobs[last.job].origin = last.q
        /\ jobs[last.job].enqueued_at

\* A plain enqueue behind another job of the same queue.
C6_Witness ==
    /\ last.op = "enqueue" /\ last.parents = {} /\ ~last.deferred
    /\ Len(fifo[last.q]) >= 2

\* C7: after enqueue(deferred=true) with no dependencies, the id is in the
\* Deferred Set, in no FIFO list, and the status is DEFERRED.
C7_DeferredEnqueue ==
    (last.op \in {"enqueue", "enqueue_sync"} /\ last.parents = {} /\ last.deferred) =>
        /\ last.res = "ok"
        /\ last.job \in deferred
        /\ Occurrences(Store, last.job) = 0
        /\ Job_status(Store, last.job) = DEFERRED

\* A deferred enqueue on a queue that lists another job.
C7_Witness ==
    /\ last.op = "enqueue" /\ last.parents = {} /\ last.deferred
    /\ last.job \in deferred
    /\ fifo[last.q] # <<>>

\* C8: after enqueue with depends_on/blocked_by naming parents of which at
\* least one is not FINISHED, the child is in no FIFO list and in the
\* reverse-dependency set of each unfinished parent named, and of no other job.
C8_ParkedOnEachUnfinishedParent ==
    ( /\ last.op \in {"enqueue", "enqueue_blocked_by"}
      /\ \E p \in last.parents : Job_status(Store, p) # FINISHED )
    => /\ Occurrences(Store, last.job) = 0
       /\ \A p \in JobIds :
            last.job \in dependents[p]
                <=> (p \in last.parents /\ Job_status(Store, p) # FINISHED)

\* C9: a successful release_job(j, target) takes j out of the Deferred Set,
\* sets its status to QUEUED and appends its id to exactly one FIFO list: the
\* target's if one is given, else the one of j's origin.
C9_ReleaseMovesToTarget ==
    [][ (last'.op = "release_job" /\ last'.res = "ok") =>
          LET j == last'.job
              dest == IF last'.q = "none" THEN jobs[j].origin ELSE last'.q
          IN  /\ j \in deferred /\ j \notin deferred'
              /\ jobs'[j].status = QUEUED
              /\ dest \in QueueNames
              /\ fifo' = [fifo EXCEPT ![dest] = Append(@, j)]
              /\ Count(fifo'[dest], j) = 1
              /\ \A q \in QueueNames \ {dest} : Count(fifo'[q], j) = 0 ]_vars

\* A release into a queue other than the one the job was deferred on.
C9_Witness ==
    /\ last.op = "release_job" /\ last.res = "ok"
    /\ last.q \in PlainQueues /\ last.old \in PlainQueues /\ last.q # last.old
    /\ InFifo(Store, last.q, last.job) = 1
    /\ InFifo(Store, last.old, last.job) = 0

\* C10: release_job on a job whose status is not DEFERRED fails with
\* InvalidJobOperationError and changes nothing in the Store.
C10_ReleaseNonDeferredRejected ==
    [][ ( /\ last'.op = "release_job"
          /\ Job_exists(Store, last'.job)
          /\ Job_status(Store, last'.job) \in {QUEUED, STARTED, FINISHED, FAILED} )
        => (last'.res = "InvalidJobOperationError" /\ UNCHANGED storeVars) ]_vars

\* release_job was refused on a job that a worker has STARTED.
C10_Witness ==
    /\ last.op = "release_job" /\ last.res = "InvalidJobOperationError"
    /\ Job_status(Store, last.job) = STARTED

\* ------------------------------------------------- the list operations
\* The operations on the FIFO lists, called directly as the tests do, on
\* lists that hold ids without a record (pushed raw, or of a job deleted
\* since) and ids more than once.

\* The callers stop pushing once the plain queues hold MaxLen ids together.
ListRoom == Len(fifo["q1"]) + Len(fifo["q2"]) < MaxLen

\* q.push_job_id(id): any id, with a record or not.
PushJobId(q, id) ==
    /\ ListRoom
    /\ Commit(push_job_id(Store, q, id))
    /\ last' = Last("push_job_id", "ok", id, q, {}, FALSE, "none")
    /\ UNCHANGED <<nextId, named, drained, pc, loc>>

\* job.delete()
JobDelete(id) ==
    /\ Job_exists(Store, id)
    /\ Commit(Job_delete(Store, id))
    /\ last' = Last("delete", "ok", id, "none", {}, FALSE, "none")
    /\ UNCHANGED <<nextId, named, drained, pc, loc>>

\* The payload of a record is overwritten with bytes that do not unpickle.
JobCorrupt(id) ==
    /\ Job_exists(Store, id)
    /\ jobs[id].data = "ok"
    /\ Commit([Store EXCEPT !.jobs[id].data = "corrupt"])
    /\ last' = Last("corrupt", "ok", id, "none", {}, FALSE, "none")
    /\ UNCHANGED <<nextId, named, drained, pc, loc>>

\* q.remove(id)
Remove(q, id) ==
    /\ LET r == remove(Store, q, id)
       IN  /\ Commit(r.s)
           /\ last' = [Last("remove", r.res, id, q, {}, FALSE, "none")
                          EXCEPT !.ret = r.job]
    /\ UNCHANGED <<nextId, named, drained, pc, loc>>

\* q.compact()
Compact(q) ==
    /\ LET r == compact(Store, q)
       IN  /\ Commit(r.s)
           /\ last' = [Last("compact", r.res, NoJob, q, {}, FALSE, "none")
                          EXCEPT !.ret = Len(fifo[q]) - Len(r.s.fifo[q])]
    /\ UNCHANGED <<nextId, named, drained, pc, loc>>

\* Number of ids in the lists of the plain queues together.
Listed(s) == Len(s.fifo["q1"]) + Len(s.fifo["q2"])

\* q.dequeue(), called by a test: the job's status is left alone.
Dequeue(q) ==
    /\ LET r == dequeue(Store, q)
       IN  /\ Commit(r.s)
           /\ last' = [Last("dequeue", r.res, r.job, q, {}, FALSE, "none")
                          EXCEPT !.ret = Listed(Store) - Listed(r.s)]
    /\ UNCHANGED <<nextId, named, drained, pc, loc>>

\* Queue.dequeue_any(queues, timeout)
DequeueAny(queues, timeout) ==
    /\ LET r == dequeue_any(Store, queues, timeout)
       IN  /\ Commit(r.s)
           /\ last' = [Last("dequeue_any", r.res, r.job, r.q, {}, FALSE, "none")
                          EXCEPT !.queues = queues, !.timeout = timeout,
                                 !.ret = Listed(Store) - Listed(r.s)]
    /\ UNCHANGED <<nextId, named, drained, pc, loc>>

\* The lists of queues the callers of dequeue_any pass.
QueueLists == {<<"q1", "q2">>, <<"q2", "q1">>}
\* The timeouts they pass: None, 0 and a number of seconds.
DequeueTimeouts == {NonBlocking, 0, SomeSeconds}

ListNext ==
    \/ ListRoom /\ Enqueue("q1", NoTimeout, TRUE, NoTimeout, NoDep, FALSE, NoDep, FALSE)
    \/ \E q \in PlainQueues, id \in JobIds : PushJobId(q, id)
    \/ \E id \in JobIds : JobDelete(id)
    \/ \E id \in JobIds : JobCorrupt(id)
    \/ \E q \in PlainQueues, id \in JobIds : Remove(q, id)
    \/ \E q \in PlainQueues : Compact(q)
    \/ \E q \in PlainQueues : Dequeue(q)
    \/ \E queues \in QueueLists, timeout \in DequeueTimeouts :
          DequeueAny(queues, timeout)
    \/ \E id \in JobIds : ReleaseJob(id, "none")
    \/ \E id \in JobIds : Requeue(id, FALSE)

SpecList == Init /\ [][ListNext]_vars

\* ------------------------------------------------- get_jobs and empty
\* q.get_jobs(offset, length)
GetJobs(q, offset, length) ==
    /\ LET r == get_jobs(Store, q, offset, length)
       IN  /\ Commit(r.s)
           /\ last' = [Last("get_jobs", r.res, NoJob, q, {}, FALSE, "none")
                          EXCEPT !.before = fifo[q], !.got = r.got,
                                 !.offset = offset, !.length = length]
    /\ UNCHANGED <<nextId, named, drained, pc, loc>>

\* q.empty()
Empty(q) ==
    /\ LET r == empty(Store, q)
       IN  /\ Commit(r.s)
           /\ last' = [Last("empty", r.res, NoJob, q, {}, FALSE, "none")
                          EXCEPT !.before = fifo[q], !.got = r.got]
    /\ UNCHANGED <<nextId, named, drained, pc, loc>>

\* The slices the callers of get_jobs ask for.
Offsets == {0, 1}
Lengths == {-1, 1}

ReadNext ==
    \/ ListRoom /\ Enqueue("q1", NoTimeout, TRUE, NoTimeout, NoDep, FALSE, NoDep, FALSE)
    \/ \E q \in PlainQueues, id \in JobIds : PushJobId(q, id)
    \/ \E id \in JobIds : JobDelete(id)
    \/ \E id \in JobIds : JobCorrupt(id)
    \/ \E q \in PlainQueues, offset \in Offsets, length \in Lengths :
          GetJobs(q, offset, length)
    \/ \E q \in PlainQueues : Empty(q)

SpecRead == Init /\ [][ReadNext]_vars

\* ------------------------------------------------------- the registry
\* Every operation that could touch rq:queues, on at most RegJobs jobs.
RegJobs == 2

\* Queue(q): the constructor talks to no Store key.
Construct(q) ==
    /\ last' = Last("construct", "ok", NoJob, q, {}, FALSE, "none")
    /\ UNCHANGED <<storeVars, nextId, named, drained, pc, loc>>

RegistryNext ==
    \/ \E q \in PlainQueues : Construct(q)
    \/ \E q \in PlainQueues, async \in BOOLEAN, fl \in BOOLEAN :
          nextId <= RegJobs
          /\ Enqueue(q, NoTimeout, async, NoTimeout, NoDep, fl, NoDep, FALSE)
    \/ \E q \in PlainQueues, p \in Created, fl \in BOOLEAN :
          nextId <= RegJobs
          /\ Enqueue(q, NoTimeout, TRUE, NoTimeout, OneDep(p), fl, NoDep, FALSE)
    \/ \E id \in Created, target \in PlainQueues \cup {"none"} : ReleaseJob(id, target)
    \/ \E q \in PlainQueues, p \in Created :
          \E order \in Orders(dependents[p]) : EnqueueDependents(q, p, order, FALSE)
    \/ \E q \in PlainQueues : WorkerTake(q)
    \/ \E j \in Created : WorkerFinish(j)
    \/ \E j \in Created : WorkerFail(j)
    \/ \E id \in Created : Requeue(id, FALSE)
    \/ \E q \in QueueNames : Empty(q)
    \/ \E q \in QueueNames, id \in Created : Remove(q, id)
    \/ \E q \in QueueNames : Compact(q)

SpecRegistry == Init /\ [][RegistryNext]_vars

\* ------------------------------------------------------- the timeouts
\* A default_timeout given to a Queue object.
QueueDefault == 500

\* job = Job.create(f, timeout=timeout); Queue(q, default_timeout=dt)
\* .enqueue_job(job), as test_enqueue_sets_metadata calls it.
EnqueueJob(q, dt, timeout) ==
    /\ nextId <= MaxJobs
    /\ Commit(enqueue_job(Store, Handle(q, dt, TRUE), nextId,
                          Job_create(QUEUED, NoJob, timeout), TRUE))
    /\ last' = [Last("enqueue_job", "ok", nextId, q, {}, FALSE, "none")
                   EXCEPT !.timeout = timeout, !.default_timeout = dt]
    /\ nextId' = nextId + 1
    /\ UNCHANGED <<named, drained, pc, loc>>

\* The same with Queue(q, default_timeout=dt).defer_job(job).
DeferJob(q, dt, timeout) ==
    /\ nextId <= MaxJobs
    /\ Commit(defer_job(Store, Handle(q, dt, TRUE), nextId,
                        Job_create(DEFERRED, NoJob, timeout)))
    /\ last' = [Last("defer_job", "ok", nextId, q, {}, TRUE, "none")
                   EXCEPT !.timeout = timeout, !.default_timeout = dt]
    /\ nextId' = nextId + 1
    /\ UNCHANGED <<named, drained, pc, loc>>

TimeoutNext ==
    \/ \E q \in PlainQueues, dt \in {NoTimeout, QueueDefault},
          timeout \in {NoTimeout, CallerTimeout}, fl \in BOOLEAN :
          Enqueue(q, dt, TRUE, timeout, NoDep, fl, NoDep, FALSE)
    \/ \E q \in PlainQueues, dt \in {NoTimeout, QueueDefault},
          timeout \in {NoTimeout, CallerTimeout} : EnqueueJob(q, dt, timeout)
    \/ \E q \in PlainQueues, dt \in {NoTimeout, QueueDefault},
          timeout \in {NoTimeout, CallerTimeout} : DeferJob(q, dt, timeout)

SpecTimeout == Init /\ [][TimeoutNext]_vars

\* ------------------------------------------------- compact || enqueue_job
\* The race of q1.compact() with a producer in q1.enqueue_job(job) or
\* q2.enqueue_job(job): one action per Store round trip.  The scratch list
\* has a key made of a fresh uuid, which only the compactor knows: it is
\* kept with the compactor's locals.

\* A job that enqueue_job appended to q1.
Enqueued ==
    [NoRec EXCEPT !.exists = TRUE, !.status = QUEUED, !.origin = "q1",
                  !.timeout = DEFAULT_TIMEOUT, !.enqueued_at = TRUE]

\* Jobs 1 and 2 were enqueued on q1 in this order; the record of either may
\* have been deleted since.
CompactInit ==
    /\ \E live \in SUBSET {1, 2} :
          jobs = [i \in JobIds |-> IF i \in live THEN Enqueued ELSE NoRec]
    /\ fifo = [EmptyStore.fifo EXCEPT !["q1"] = <<1, 2>>]
    /\ deferred = {}
    /\ dependents = EmptyStore.dependents
    /\ queues_keys = {"q1"}
    /\ wip = EmptyStore.wip
    /\ now = EmptyStore.now
    /\ nextId = 3
    /\ named = [i \in JobIds |-> {}]
    /\ drained = {}
    /\ last = Last("init", "ok", NoJob, "none", {}, FALSE, "none")
    /\ pc = [p \in {"compactor", "producer"} |-> "idle"]
    /\ loc = [p \in {"compactor", "producer"} |->
                IF p = "compactor"
                THEN [q |-> "q1", scratch |-> <<>>, job_id |-> NoJob]
                ELSE Loc(NoJob, "none", NoJob, NoRec)]

\* line 188: RENAME key COMPACT_QUEUE
C_Rename ==
    /\ pc["compactor"] = "idle"
    /\ fifo["q1"] # <<>>
    /\ loc' = [loc EXCEPT !["compactor"].scratch = fifo["q1"]]
    /\ Commit([Store EXCEPT !.fifo["q1"] = <<>>])
    /\ Goto("compactor", "lpop")
    /\ UNCHANGED <<nextId, named, drained, last>>

\* lines 190-192: LPOP COMPACT_QUEUE; None ends the loop.
C_Lpop ==
    /\ pc["compactor"] = "lpop"
    /\ LET scratch == loc["compactor"].scratch
       IN  IF scratch = <<>>
           THEN /\ Goto("compactor", "done")
                /\ UNCHANGED loc
           ELSE /\ loc' = [loc EXCEPT !["compactor"].scratch = Tail(scratch),
                                      !["compactor"].job_id = Head(scratch)]
                /\ Goto("compactor", "exists")
    /\ UNCHANGED <<storeVars, nextId, named, drained, last>>

\* line 193: Job.exists(job_id)
C_Exists ==
    /\ pc["compactor"] = "exists"
    /\ IF Job_exists(Store, loc["compactor"].job_id)
       THEN Goto("compactor", "rpush")
       ELSE Goto("compactor", "lpop")
    /\ UNCHANGED <<storeVars, nextId, named, drained, last, loc>>

\* line 194: RPUSH key job_id
C_Rpush ==
    /\ pc["compactor"] = "rpush"
    /\ Commit(push_job_id(Store, "q1", loc["compactor"].job_id))
    /\ Goto("compactor", "lpop")
    /\ UNCHANGED <<nextId, named, drained, last, loc>>

\* The producer makes a job and calls Queue(q).enqueue_job(job).
E_Create(q) ==
    /\ pc["producer"] \in {"idle", "done"}
    /\ nextId <= MaxJobs
    /\ loc' = [loc EXCEPT !["producer"] =
                 Loc(nextId, q, NoJob, Job_create(QUEUED, NoJob, NoTimeout))]
    /\ nextId' = nextId + 1
    /\ Goto("producer", "sadd")
    /\ UNCHANGED <<storeVars, named, drained, last>>

\* line 315: SADD rq:queues key
E_Sadd ==
    /\ pc["producer"] = "sadd"
    /\ Commit([Store EXCEPT !.queues_keys = @ \cup {loc["producer"].q}])
    /\ Goto("producer", "save")
    /\ UNCHANGED <<nextId, named, drained, last, loc>>

\* lines 317-323: origin, enqueued_at and the timeout are set; job.save()
E_Save ==
    /\ pc["producer"] = "save"
    /\ LET l == loc["producer"]
           o == [l.obj EXCEPT !.origin = l.q, !.enqueued_at = TRUE,
                              !.timeout = IF @ = NoTimeout THEN DEFAULT_TIMEOUT ELSE @]
       IN  /\ Commit(Job_save(Store, l.job, o))
           /\ loc' = [loc EXCEPT !["producer"].obj = o]
    /\ Goto("producer", "rpush")
    /\ UNCHANGED <<nextId, named, drained, last>>

\* line 326: push_job_id
E_Rpush ==
    /\ pc["producer"] = "rpush"
    /\ Commit(push_job_id(Store, loc["producer"].q, loc["producer"].job))
    /\ Goto("producer", "done")
    /\ UNCHANGED <<nextId, named, drained, last, loc>>

CompactNext ==
    \/ C_Rename
    \/ C_Lpop
    \/ C_Exists
    \/ C_Rpush
    \/ \E q \in PlainQueues : E_Create(q)
    \/ E_Sadd
    \/ E_Save
    \/ E_Rpush

SpecCompact == CompactInit /\ [][CompactNext]_vars

\* --------------------------------------------------- empty || enqueue_job
\* The race of q1.empty() with the producer above.  job_ids is what LRANGE
\* returned and is still to be fetched, job_list the jobs fetched so far and,
\* after the DEL, still to be cancelled.
EmptyInit ==
    /\ \E live \in SUBSET {1, 2} :
          jobs = [i \in JobIds |-> IF i \in live THEN Enqueued ELSE NoRec]
    /\ fifo = [EmptyStore.fifo EXCEPT !["q1"] = <<1, 2>>]
    /\ deferred = {}
    /\ dependents = EmptyStore.dependents
    /\ queues_keys = {"q1"}
    /\ wip = EmptyStore.wip
    /\ now = EmptyStore.now
    /\ nextId = 3
    /\ named = [i \in JobIds |-> {}]
    /\ drained = {}
    /\ last = Last("init", "ok", NoJob, "none", {}, FALSE, "none")
    /\ pc = [p \in {"emptier", "producer"} |-> "idle"]
    /\ loc = [p \in {"emptier", "producer"} |->
                IF p = "emptier"
                THEN [q |-> "q1", job_ids |-> <<>>, job_list |-> <<>>]
                ELSE Loc(NoJob, "none", NoJob, NoRec)]

\* lines 125, 152, 147: get_jobs reads the ids with LRANGE key 0 -1.
M_Lrange ==
    /\ pc["emptier"] = "idle"
    /\ loc' = [loc EXCEPT !["emptier"].job_ids = fifo["q1"]]
    /\ Goto("emptier", "fetch")
    /\ UNCHANGED <<storeVars, nextId, named, drained, last>>

\* lines 153, 134-138: fetch_job on the next id; LREM when it has no record.
M_Fetch ==
    /\ pc["emptier"] = "fetch"
    /\ LET l == loc["emptier"]
       IN  IF l.job_ids = <<>>
           THEN /\ Goto("emptier", "del")
                /\ UNCHANGED <<storeVars, loc>>
           ELSE LET r == fetch_job(Store, "q1", Head(l.job_ids))
                IN  /\ Commit(r.s)
                    /\ loc' = [loc EXCEPT
                                 !["emptier"].job_ids = Tail(l.job_ids),
                                 !["emptier"].job_list =
                                    IF r.job = NoJob THEN @ ELSE Append(@, r.job)]
                    /\ UNCHANGED pc
    /\ UNCHANGED <<nextId, named, drained, last>>

\* line 126: DEL key
M_Del ==
    /\ pc["emptier"] = "del"
    /\ Commit([Store EXCEPT !.fifo["q1"] = <<>>])
    /\ Goto("emptier", "cancel")
    /\ UNCHANGED <<nextId, named, drained, last, loc>>

\* lines 127-128: job.cancel() on the next job of job_list.
M_Cancel ==
    /\ pc["emptier"] = "cancel"
    /\ LET l == loc["emptier"]
       IN  IF l.job_list = <<>>
           THEN /\ Goto("emptier", "done")
                /\ UNCHANGED <<storeVars, loc>>
           ELSE /\ Commit(Job_delete(Store, Head(l.job_list)))
                /\ loc' = [loc EXCEPT !["emptier"].job_list = Tail(l.job_list)]
                /\ UNCHANGED pc
    /\ UNCHANGED <<nextId, named, drained, last>>

EmptyNext ==
    \/ M_Lrange
    \/ M_Fetch
    \/ M_Del
    \/ M_Cancel
    \/ \E q \in PlainQueues : E_Create(q)
    \/ E_Sadd
    \/ E_Save
    \/ E_Rpush

SpecEmpty == EmptyInit /\ [][EmptyNext]_vars

\* ------------------------------------------------ release_job || release_job
\* Two callers of release_job(job_id) on job 1, which is DEFERRED in
\* rq:deferred with origin q1: one action per Store round trip.  A caller
\* that raised stays at the name of its exception.
Releasers == {"r1", "r2"}

ReleaseInit ==
    /\ jobs = [EmptyStore.jobs EXCEPT ![1] = [Enqueued EXCEPT !.status = DEFERRED]]
    /\ fifo = EmptyStore.fifo
    /\ deferred = {1}
    /\ dependents = EmptyStore.dependents
    /\ queues_keys = {}
    /\ wip = EmptyStore.wip
    /\ now = EmptyStore.now
    /\ nextId = 2
    /\ named = [i \in JobIds |-> {}]
    /\ drained = {}
    /\ last = Last("init", "ok", NoJob, "none", {}, FALSE, "none")
    /\ pc = [p \in Releasers |-> "idle"]
    /\ loc = [p \in Releasers |-> Loc(NoJob, "none", NoJob, NoRec)]

\* line 23: Job.exists(job_id); the caller passes queue_or_name=target.
R_Exists(p, target) ==
    /\ pc[p] = "idle"
    /\ loc' = [loc EXCEPT ![p] = Loc(1, target, NoJob, NoRec)]
    /\ IF Job_exists(Store, 1) THEN Goto(p, "fetch") ELSE Goto(p, "NoSuchJobError")
    /\ UNCHANGED <<storeVars, nextId, named, drained, last>>

\* line 24: Job.fetch(job_id)
R_Fetch(p) ==
    /\ pc[p] = "fetch"
    /\ loc' = [loc EXCEPT ![p].obj = jobs[loc[p].job]]
    /\ Goto(p, "check")
    /\ UNCHANGED <<storeVars, nextId, named, drained, last>>

\* lines 30-40: job.is_deferred, read from the job in memory; the queue.
R_Check(p) ==
    /\ pc[p] = "check"
    /\ IF loc[p].obj.status = DEFERRED
       THEN /\ Goto(p, "srem")
            /\ loc' = [loc EXCEPT ![p].q = IF @ = "none" THEN loc[p].obj.origin ELSE @]
       ELSE /\ Goto(p, "InvalidJobOperationError")
            /\ UNCHANGED loc
    /\ UNCHANGED <<storeVars, nextId, named, drained, last>>

\* A faulty SREM step: the result is not looked at.
R_Srem_unchecked(p) ==
    /\ pc[p] = "srem"
    /\ Commit([Store EXCEPT !.deferred = @ \ {loc[p].job}])
    /\ Goto(p, "status")
    /\ UNCHANGED <<nextId, named, drained, last, loc>>

\* lines 41-43: SREM rq:deferred id; NoSuchJobError when it removed nothing.
R_Srem(p) ==
    /\ pc[p] = "srem"
    /\ Commit([Store EXCEPT !.deferred = @ \ {loc[p].job}])
    /\ IF loc[p].job \in deferred THEN Goto(p, "status") ELSE Goto(p, "NoSuchJobError")
    /\ UNCHANGED <<nextId, named, drained, last, loc>>

\* lines 45-46: job.status = QUEUED; job.save()
R_Status(p) ==
    /\ pc[p] = "status"
    /\ LET o == [loc[p].obj EXCEPT !.status = QUEUED]
       IN  /\ Commit(Job_save(Store, loc[p].job, o))
           /\ loc' = [loc EXCEPT ![p].obj = o]
    /\ Goto(p, "sadd")
    /\ UNCHANGED <<nextId, named, drained, last>>

\* line 47 into line 315: enqueue_job registers the queue.
R_Sadd(p) ==
    /\ pc[p] = "sadd"
    /\ Commit([Store EXCEPT !.queues_keys = @ \cup {loc[p].q}])
    /\ Goto(p, "save")
    /\ UNCHANGED <<nextId, named, drained, last, loc>>

\* lines 317-323: origin, enqueued_at and the timeout are set; job.save()
R_Save(p) ==
    /\ pc[p] = "save"
    /\ LET o == [loc[p].obj EXCEPT !.origin = loc[p].q, !.enqueued_at = TRUE,
                                   !.timeout = IF @ = NoTimeout THEN DEFAULT_TIMEOUT ELSE @]
       IN  /\ Commit(Job_save(Store, loc[p].job, o))
           /\ loc' = [loc EXCEPT ![p].obj = o]
    /\ Goto(p, "rpush")
    /\ UNCHANGED <<nextId, named, drained, last>>

\* line 326: push_job_id; release_job returns at line 50.
R_Rpush(p) ==
    /\ pc[p] = "rpush"
    /\ Commit(push_job_id(Store, loc[p].q, loc[p].job))
    /\ Goto(p, "done")
    /\ UNCHANGED <<nextId, named, drained, last, loc>>

ReleaseNext ==
    \/ \E p \in Releasers, target \in PlainQueues \cup {"none"} : R_Exists(p, target)
    \/ \E p \in Releasers : R_Fetch(p)
    \/ \E p \in Releasers : R_Check(p)
    \/ \E p \in Releasers : R_Srem(p)
    \/ \E p \in Releasers : R_Status(p)
    \/ \E p \in Releasers : R_Sadd(p)
    \/ \E p \in Releasers : R_Save(p)
    \/ \E p \in Releasers : R_Rpush(p)

SpecRelease == ReleaseInit /\ [][ReleaseNext]_vars

\* -------------------------------------------------------- the WIP queue
\* WIPQueue.add_job(job) on the WIP queue object h; o is the job in memory.
\* ZADD gives a new member its score and an old member its new score.
add_job(s, h, id, o) ==
    LET timeout == IF o.timeout # NoTimeout THEN o.timeout
                   ELSE IF h.default_timeout # NoTimeout THEN h.default_timeout
                   ELSE DEFAULT_TIMEOUT
        rank == s.now + timeout
    IN  [s EXCEPT !.wip[h.name][id] = rank]

\* WIPQueue.remove_job(job): ZREM; returns the number of members removed.
remove_job(s, h, id) ==
    Outcome([s EXCEPT !.wip[h.name][id] = NoScore], "ok",
            IF s.wip[h.name][id] # NoScore THEN 1 ELSE 0)

\* ZRANGEBYSCORE key -inf max: the members with a score of at most max.
zrangebyscore(s, q, max) ==
    {id \in JobIds : s.wip[q][id] # NoScore /\ s.wip[q][id] <= max}

\* A faulty remove_expired_jobs: the entries whose score is the present
\* second are left.
remove_expired_jobs_strict(s, h) ==
    LET to_remove == zrangebyscore(s, h.name, s.now - 1)
    IN  [s EXCEPT !.wip[h.name] =
            [id \in JobIds |-> IF id \in to_remove THEN NoScore ELSE @[id]]]

\* WIPQueue.remove_expired_jobs(): ZRANGEBYSCORE up to time.time(), then
\* ZREM of what it returned.
remove_expired_jobs(s, h) ==
    LET to_remove == zrangebyscore(s, h.name, s.now)
    IN  [s EXCEPT !.wip[h.name] =
            [id \in JobIds |-> IF id \in to_remove THEN NoScore ELSE @[id]]]

\* The clock is followed for ClockSteps seconds from second 0 and for as
\* many after the callers have slept DEFAULT_TIMEOUT seconds.
ClockSteps == 3
\* A timeout a job is created with, and a default_timeout of a queue.
ShortTimeout == 2

\* A second passes (d = 1), or the callers sleep d = DEFAULT_TIMEOUT seconds.
Tick(d) ==
    /\ IF d = 1 THEN now % DEFAULT_TIMEOUT < ClockSteps ELSE now < DEFAULT_TIMEOUT
    /\ Commit([Store EXCEPT !.now = @ + d])
    /\ last' = Last("tick", "ok", NoJob, "none", {}, FALSE, "none")
    /\ UNCHANGED <<nextId, named, drained, pc, loc>>

\* job = Job.create(f, timeout=timeout); WIPQueue(q, default_timeout=dt)
\* .add_job(job), the job having id.
WipAddJob(q, dt, id, timeout) ==
    /\ Commit(add_job(Store, Handle(q, dt, TRUE), id,
                      Job_create(STARTED, NoJob, timeout)))
    /\ last' = [Last("add_job", "ok", id, q, {}, FALSE, "none")
                   EXCEPT !.timeout = timeout, !.default_timeout = dt]
    /\ UNCHANGED <<nextId, named, drained, pc, loc>>

\* WIPQueue(q).remove_job(id)
WipRemoveJob(q, id) ==
    /\ LET r == remove_job(Store, Handle(q, NoTimeout, TRUE), id)
       IN  /\ Commit(r.s)
           /\ last' = [Last("remove_job", r.res, id, q, {}, FALSE, "none")
                          EXCEPT !.ret = r.job]
    /\ UNCHANGED <<nextId, named, drained, pc, loc>>

\* WIPQueue(q).remove_expired_jobs()
WipRemoveExpiredJobs(q) ==
    /\ Commit(remove_expired_jobs(Store, Handle(q, NoTimeout, TRUE)))
    /\ last' = [Last("remove_expired_jobs", "ok", NoJob, q, {}, FALSE, "none")
                   EXCEPT !.ret = Cardinality(zrangebyscore(Store, q, now))]
    /\ UNCHANGED <<nextId, named, drained, pc, loc>>

\* The queues whose WIP queue is followed.
WipQueues == {"q1"}

WipNext ==
    \/ \E d \in {1, DEFAULT_TIMEOUT} : Tick(d)
    \/ \E q \in WipQueues, dt \in {NoTimeout, SomeSeconds}, id \in JobIds,
          timeout \in {NoTimeout, ShortTimeout} : WipAddJob(q, dt, id, timeout)
    \/ \E q \in WipQueues, id \in JobIds : WipRemoveJob(q, id)
    \/ \E q \in WipQueues : WipRemoveExpiredJobs(q)

SpecWip == Init /\ [][WipNext]_vars

\* ------------------------------------------------------ the failed queue
\* Jobs enqueued with and without a timeout of their own, taken by a worker,
\* failed and quarantined, and requeued.
FailedNext ==
    \/ \E q \in PlainQueues, timeout \in {NoTimeout, CallerTimeout} :
          Enqueue(q, NoTimeout, TRUE, timeout, NoDep, FALSE, NoDep, FALSE)
    \/ \E q \in PlainQueues : WorkerTake(q)
    \/ \E j \in Created : WorkerFinish(j)
    \/ \E j \in Created : WorkerFail(j)
    \/ \E id \in Created : Requeue(id, TRUE)

SpecFailed == Init /\ [][FailedNext]_vars

\* C11: a successful release_job(j) promotes the members of j's
\* reverse-dependency set: each of them is in a FIFO list once the release
\* has returned.
C11_ReleasePromotesDependents ==
    [][ (last'.op = "release_job" /\ last'.res = "ok") =>
          \A c \in dependents[last'.job] :
              \E q \in QueueNames : Count(fifo'[q], c) > 0 ]_vars

\* C15: an id that release_job, requeue or enqueue_dependents adds to a FIFO
\* list has a persisted record of status QUEUED when the call has returned.
C15_ListedByPromotionIsQueued ==
    [][ ( /\ last'.op \in {"release_job", "requeue", "enqueue_dependents"}
          /\ last'.res = "ok" )
        => \A q \in QueueNames, c \in JobIds :
              Count(fifo'[q], c) > Count(fifo[q], c) => jobs'[c].status = QUEUED ]_vars

\* a is an initial segment of b.
IsPrefix(a, b) == Len(a) <= Len(b) /\ SubSeq(b, 1, Len(a)) = a

\* C16: on every step the FIFO list of a plain queue either keeps its ids
\* and gains new ones at the tail only (enqueue, release, promotion of a
\* parked job, requeue), or loses its head to a dequeue that returns it.
C16_FifoOrder ==
    [][ \A q \in PlainQueues :
          \/ IsPrefix(fifo[q], fifo'[q])
          \/ /\ last'.op = "dequeue" /\ last'.q = q
             /\ fifo[q] # <<>>
             /\ last'.job = Head(fifo[q])
             /\ fifo'[q] = Tail(fifo[q]) ]_vars

\* A parked job was promoted behind a job that was enqueued after it had
\* been created.
C16_Witness ==
    /\ last.op = "enqueue_dependents" /\ last.res = "ok"
    /\ \E q \in PlainQueues : \E i, j \in 1..Len(fifo[q]) :
          /\ i < j
          /\ fifo[q][i] > fifo[q][j]
          /\ jobs[fifo[q][j]].dependency = last.job

\* Position of the first id of list L that has a record, 0 if there is none.
FirstLive(L) ==
    IF \E i \in 1..Len(L) : jobs[L[i]].exists
    THEN CHOOSE i \in 1..Len(L) :
            jobs[L[i]].exists /\ \A k \in 1..(i - 1) : ~jobs[L[k]].exists
    ELSE 0

\* List L from position k + 1 on.
After(L, k) == SubSeq(L, k + 1, Len(L))

\* C17: dequeue, and dequeue_any without a timeout, hand out the first id
\* that has a record, in list order and then in the order of the queues
\* given; the ids before it, none of which has a record, are gone from the
\* lists; when no id has a record the call returns None and the lists it
\* went through are empty.
C17_SkipsIdsWithoutRecord ==
    [][ /\ last'.op = "dequeue" =>
              LET L == fifo[last'.q]
                  k == FirstLive(L)
              IN  /\ (last'.job # NoJob => jobs[last'.job].exists)
                  /\ IF k = 0
                     THEN /\ last'.job = NoJob /\ last'.res = "ok"
                          /\ fifo' = [fifo EXCEPT ![last'.q] = <<>>]
                     ELSE /\ last'.job = L[k]
                          /\ jobs[L[k]].data = "ok" => last'.res = "ok"
                          /\ fifo' = [fifo EXCEPT ![last'.q] = After(L, k)]
        /\ (last'.op = "dequeue_any" /\ last'.timeout = NonBlocking) =>
              LET a == last'.queues[1]
                  b == last'.queues[2]
                  L == fifo[a] \o fifo[b]
                  k == FirstLive(L)
              IN  /\ (last'.job # NoJob => jobs[last'.job].exists)
                  /\ IF k = 0
                     THEN /\ last'.job = NoJob /\ last'.res = "ok"
                          /\ fifo' = [fifo EXCEPT ![a] = <<>>, ![b] = <<>>]
                     ELSE /\ last'.job = L[k]
                          /\ jobs[L[k]].data = "ok" => last'.res = "ok"
                          /\ last'.q = IF k <= Len(fifo[a]) THEN a ELSE b
                          /\ fifo'[a] \o fifo'[b] = After(L, k)
                          /\ k > Len(fifo[a]) => fifo'[a] = <<>>
                          /\ k <= Len(fifo[a]) => fifo'[b] = fifo[b]
                          /\ fifo'[FailedName] = fifo[FailedName] ]_vars

\* dequeue_any went past an id without a record in the first queue and
\* handed out a job of the second.
C17_Witness ==
    /\ last.op = "dequeue_any" /\ last.timeout = NonBlocking /\ last.res = "ok"
    /\ last.job # NoJob
    /\ last.q = last.queues[2]
    /\ last.ret >= 2

\* The first queue of the list whose FIFO list is not empty, "none" if all
\* are empty.
FirstNonEmpty(queues) ==
    IF fifo[queues[1]] # <<>> THEN queues[1]
    ELSE IF fifo[queues[2]] # <<>> THEN queues[2]
    ELSE "none"

\* C18: dequeue_any(queues, timeout), timeout None or positive, returns the
\* head of the first non-empty queue of the list, and that queue, whenever
\* that head has a record; whatever it returns, the queues before the one
\* returned are empty.  With all queues empty and no timeout it returns None.
C18_FirstNonEmptyQueueServed ==
    [][ (last'.op = "dequeue_any" /\ last'.timeout # 0) =>
          LET f == FirstNonEmpty(last'.queues)
          IN  /\ (f # "none" /\ Job_fetch(Store, Head(fifo[f])) = "ok") =>
                    /\ last'.res = "ok"
                    /\ last'.q = f
                    /\ last'.job = Head(fifo[f])
                    /\ fifo' = [fifo EXCEPT ![f] = Tail(@)]
              /\ (last'.job # NoJob /\ last'.q = last'.queues[2]) =>
                    fifo'[last'.queues[1]] = <<>>
              /\ (f = "none" /\ last'.timeout = NonBlocking) =>
                    /\ last'.res = "ok" /\ last'.job = NoJob
                    /\ UNCHANGED storeVars ]_vars

\* A blocking dequeue_any served the first queue of its list while the second
\* held an id too.
C18_Witness ==
    /\ last.op = "dequeue_any" /\ last.timeout = SomeSeconds /\ last.res = "ok"
    /\ last.job # NoJob
    /\ last.queues = <<"q2", "q1">> /\ last.q = "q2"
    /\ fifo["q1"] # <<>>

\* C19: compact() on a non-empty queue leaves in its list the ids that have
\* a record, each as often and in the same order as before, and no other;
\* nothing else in the Store changes.
C19_CompactKeepsLive ==
    [][ (last'.op = "compact" /\ fifo[last'.q] # <<>>) =>
          LET Live(x) == jobs[x].exists
          IN  /\ last'.res = "ok"
              /\ fifo' = [fifo EXCEPT ![last'.q] = SelectSeq(@, Live)]
              /\ UNCHANGED <<jobs, deferred, dependents, queues_keys>> ]_vars

\* compact dropped an id and kept two.
C19_Witness ==
    /\ last.op = "compact" /\ last.res = "ok"
    /\ last.ret >= 1
    /\ Len(fifo[last.q]) = 2

\* C20: remove(id) leaves no occurrence of id in the queue's list; the list
\* is shorter by the number of occurrences it had, which is the number
\* returned; the other ids keep their order; the other lists are untouched.
C20_RemoveAllOccurrences ==
    [][ last'.op = "remove" =>
          LET q == last'.q
              Other(x) == x # last'.job
          IN  /\ last'.res = "ok"
              /\ Count(fifo'[q], last'.job) = 0
              /\ Len(fifo'[q]) = Len(fifo[q]) - Count(fifo[q], last'.job)
              /\ last'.ret = Count(fifo[q], last'.job)
              /\ fifo' = [fifo EXCEPT ![q] = SelectSeq(@, Other)]
              /\ UNCHANGED <<jobs, deferred, dependents, queues_keys>> ]_vars

\* remove took two occurrences of an id out of a list and left another id.
C20_Witness ==
    /\ last.op = "remove" /\ last.res = "ok"
    /\ last.ret = 2
    /\ Len(fifo[last.q]) = 1

\* The exceptions the public operations raise.
TypedErrors ==
    {"NoSuchJobError", "InvalidJobOperationError", "ValueError",
     "DequeueTimeout", "UnpickleError"}

\* b is a final segment of a.
IsSuffix(b, a) ==
    Len(b) <= Len(a) /\ SubSeq(a, Len(a) - Len(b) + 1, Len(a)) = b

\* C14 as stated: a call of release_job, requeue, dequeue or dequeue_any
\* that ends with an exception leaves every list, set and record as it was.
C14_ErrorLeavesStoreUnchanged ==
    [][ ( /\ last'.op \in {"release_job", "requeue", "dequeue", "dequeue_any"}
          /\ last'.res \in TypedErrors )
        => UNCHANGED storeVars ]_vars

\* C14, amended: such a call leaves every record and set as it was.  The
\* lists too, unless the exception is UnpickleError or DequeueTimeout: these
\* are raised after ids were popped, and the lists have lost, from their
\* heads, the ids without a record that the call went past and (for
\* UnpickleError) the id whose record could not be unpickled.
C14_ErrorLeavesStoreButPopped ==
    [][ ( /\ last'.op \in {"release_job", "requeue", "dequeue", "dequeue_any"}
          /\ last'.res \in TypedErrors )
        => /\ UNCHANGED <<jobs, deferred, dependents, queues_keys>>
           /\ IF last'.res \in {"UnpickleError", "DequeueTimeout"}
              THEN \A q \in QueueNames :
                     /\ IsSuffix(fifo'[q], fifo[q])
                     /\ \A i \in 1..(Len(fifo[q]) - Len(fifo'[q])) :
                           \/ ~jobs[fifo[q][i]].exists
                           \/ /\ last'.res = "UnpickleError"
                              /\ fifo[q][i] = last'.job
                              /\ i = Len(fifo[q]) - Len(fifo'[q])
              ELSE fifo' = fifo ]_vars

\* dequeue_any timed out after it had dropped an id without a record.
C14_Witness ==
    /\ last.op = "dequeue_any" /\ last.res = "DequeueTimeout"
    /\ last.ret >= 1

C27_AtMostOnceInLists ==
    \A id \in JobIds : Occurrences(Store, id) <= 1

\* A released job, a promoted child and a requeued job have each been
\* appended, and a second job is listed behind one of them.
C27_Witness ==
    /\ last.op \in {"release_job", "enqueue_dependents", "requeue"}
    /\ last.res = "ok"
    /\ last.op = "enqueue_dependents" => last.ids # {}
    /\ \E q \in QueueNames : Len(fifo[q]) >= 2

\* C28: when the one parent named by depends_on or blocked_by is FINISHED at
\* enqueue time, the deferred flag alone chooses the path: deferred=false
\* appends the job to the FIFO list with status QUEUED, deferred=true puts
\* it in the Deferred Set, whichever of the two arguments named the parent.
C28_FinishedParentFlagDecides ==
    (/\ last.op \in {"enqueue", "enqueue_blocked_by"}
     /\ last.res = "ok"
     /\ last.parents # {}
     /\ \A p \in last.parents : Job_status(Store, p) = FINISHED)
    => IF last.deferred
       THEN /\ last.job \in deferred
            /\ Occurrences(Store, last.job) = 0
       ELSE /\ InFifo(Store, last.q, last.job) = 1
            /\ Job_status(Store, last.job) = QUEUED
            /\ last.job \notin deferred

\* C30: enqueue_dependents(parent) returns; the parent's set is then empty
\* and every id that was in it is in the FIFO list of the queue exactly once.
C30_DrainEmptiesSetOnce ==
    last.op = "enqueue_dependents"
    => /\ last.res = "ok"
       /\ dependents[last.job] = {}
       /\ \A c \in last.ids :
             /\ InFifo(Store, last.q, c) = 1
             /\ Occurrences(Store, c) = 1

\* A drain of two children.
C30_Witness ==
    /\ last.op = "enqueue_dependents"
    /\ last.res = "ok"
    /\ Cardinality(last.ids) >= 2

\* The ids of a list.
Range(seq) == {seq[i] : i \in 1..Len(seq)}

\* C21: after empty() has run, the FIFO list is empty and no id that was in
\* the list before the call has a record still.
C21_EmptyDeletesListAndRecords ==
    (last.op = "empty" /\ last.res = "ok")
    => /\ fifo[last.q] = <<>>
       /\ \A id \in Range(last.before) : ~Job_exists(Store, id)

\* empty() ran on a list that held the id of a job and an id without record.
C21_Witness ==
    /\ last.op = "empty" /\ last.res = "ok"
    /\ Len(last.got) >= 1
    /\ Len(last.before) > Len(last.got)
    /\ fifo[last.q] = <<>>

\* C22: get_jobs returns the jobs of the ids of the slice that have a
\* record, in list order, and removes from the list the ids of the slice
\* that have none; the other ids stay in place and in order.
C22_GetJobsReturnsLiveDropsStale ==
    (last.op = "get_jobs" /\ last.res = "ok")
    => LET before == last.before
           slice == get_job_ids([Store EXCEPT !.fifo[last.q] = before], last.q,
                                last.offset, last.length)
           stale == {id \in Range(slice) : ~Job_exists(Store, id)}
       IN  /\ last.got = SelectSeq(slice, LAMBDA id : id \notin stale)
           /\ fifo[last.q] = SelectSeq(before, LAMBDA id : id \notin stale)

\* get_jobs returned a job and dropped an id from a list of three.
C22_Witness ==
    /\ last.op = "get_jobs" /\ last.res = "ok"
    /\ Len(last.got) >= 1
    /\ Len(last.before) = 3
    /\ Len(fifo[last.q]) < Len(last.before)
    /\ fifo[last.q] # <<>>

\* C23: the Queue Registry only grows.  No step takes a key out of it; a
\* key enters it only in a step in which enqueue_job ran on that queue (the
\* job was appended to its list or, with async=False, run inline), so not
\* when a queue is constructed or a job is deferred or parked; and every
\* step that lengthens a list leaves the list's key registered.
C23_RegistryOnlyGrows ==
    [][/\ queues_keys \subseteq queues_keys'
       /\ \A q \in QueueNames :
             /\ (q \in queues_keys' \ queues_keys)
                => \/ Len(fifo'[q]) > Len(fifo[q])
                   \/ (last'.op = "enqueue_sync" /\ last'.q = q /\ ~last'.deferred)
             /\ Len(fifo'[q]) > Len(fifo[q]) => q \in queues_keys']_vars

\* empty() has just emptied the registered queue q1, which is still
\* registered, while q2, which holds a deferred job, never was.
C23_Witness ==
    /\ last.op = "empty" /\ last.res = "ok" /\ last.q = "q1"
    /\ last.before # <<>>
    /\ fifo["q1"] = <<>>
    /\ "q1" \in queues_keys
    /\ "q2" \notin queues_keys
    /\ \E id \in deferred : jobs[id].origin = "q2"

\* C29: enqueue_job and defer_job leave a job that had a timeout with it,
\* and give a job that had none the default_timeout of the queue object,
\* or 180 seconds when the queue has no default; a job appended to a list
\* has a timeout.
C29_QueueDefaultTimeoutApplied ==
    (last.op \in {"enqueue_job", "defer_job"} /\ last.res = "ok")
    => /\ jobs[last.job].timeout =
             IF last.timeout # NoTimeout THEN last.timeout
             ELSE IF last.default_timeout # NoTimeout THEN last.default_timeout
             ELSE DEFAULT_TIMEOUT
       /\ jobs[last.job].timeout # NoTimeout

\* C24: whatever the interleaving of compact() with enqueue_job on the same
\* queue, once compact has returned the ids that have a record are in the
\* list in the order in which they were enqueued (the order of their ids
\* here): a job enqueued during the compaction is not ahead of a surviving
\* job enqueued before it.
C24_CompactKeepsEnqueueOrder ==
    pc["compactor"] = "done"
    => \A i, j \in 1..Len(fifo["q1"]) :
          (/\ i < j
           /\ Job_exists(Store, fifo["q1"][i])
           /\ Job_exists(Store, fifo["q1"][j]))
          => fifo["q1"][i] < fifo["q1"][j]

\* The names of the exceptions a caller of release_job can end with.
ReleaseErrors == {"NoSuchJobError", "InvalidJobOperationError"}

\* C25: of two concurrent calls of release_job on the same deferred job,
\* exactly one succeeds and the id is appended to a list exactly once; the
\* other ends with NoSuchJob or InvalidJobOperation and appends nothing.
C25_ExactlyOneReleaseSucceeds ==
    /\ Occurrences(Store, 1) <= 1
    /\ (\A p \in Releasers : pc[p] \in ReleaseErrors \cup {"done"})
       => /\ Cardinality({p \in Releasers : pc[p] = "done"}) = 1
          /\ Cardinality({p \in Releasers : pc[p] \in ReleaseErrors}) = 1
          /\ Occurrences(Store, 1) = 1
          /\ \E p \in Releasers :
                pc[p] = "done" /\ InFifo(Store, loc[p].q, 1) = 1

\* Both calls passed the is_deferred check on the job they had loaded; r1
\* released the job to q2 and r2, which asked for q1, ended with NoSuchJob.
C25_Witness ==
    /\ pc["r1"] = "done" /\ pc["r2"] = "NoSuchJobError"
    /\ loc["r2"].obj.status = DEFERRED
    /\ loc["r1"].q = "q2" /\ loc["r2"].q = "q1"
    /\ fifo["q2"] = <<1>> /\ fifo["q1"] = <<>>

\* C26: whatever the interleaving of empty() with enqueue_job on the same
\* queue, once both have returned there is no record with status QUEUED
\* whose id is in no FIFO list.
C26_NoJobLostByEmpty ==
    (pc["emptier"] = "done" /\ pc["producer"] \in {"idle", "done"})
    => \A id \in JobIds :
          (Job_exists(Store, id) /\ Job_status(Store, id) = QUEUED)
          => Occurrences(Store, id) >= 1

\* C31: add_job at second t0 gives the id the score t0 + job.timeout (the
\* queue's default_timeout, else 180, when the job has none) and touches no
\* other entry; remove_expired_jobs at second t removes exactly the entries
\* with a score of at most t and leaves those with a greater score as they
\* were, so no entry goes before the second its score names.
C31_WipScoreAndExpiry ==
    [][/\ last'.op = "add_job"
          => LET timeout == IF last'.timeout # NoTimeout THEN last'.timeout
                            ELSE IF last'.default_timeout # NoTimeout
                                 THEN last'.default_timeout
                                 ELSE DEFAULT_TIMEOUT
             IN  wip' = [wip EXCEPT ![last'.q][last'.job] = now + timeout]
       /\ last'.op = "remove_expired_jobs"
          => \A q \in PlainQueues, id \in JobIds :
                wip'[q][id] = IF /\ q = last'.q
                                 /\ wip[q][id] # NoScore
                                 /\ wip[q][id] <= now
                              THEN NoScore
                              ELSE wip[q][id]]_vars

\* After DEFAULT_TIMEOUT seconds and one more, remove_expired_jobs has taken
\* out at least one entry and left one whose score is the next second.
C31_Witness ==
    /\ last.op = "remove_expired_jobs"
    /\ last.ret >= 1
    /\ now = DEFAULT_TIMEOUT + 1
    /\ \E id \in JobIds : wip[last.q][id] = now + 1

====
